---- MODULE Spec2Model ----
(***************************************************************************)
(* Model of cmd/bridge/config/auth/authoptions.go: the console's user      *)
(* authentication options (AuthOptions), their merge with the config file  *)
(* (ApplyConfig), validation (Validate), completion (Complete) and the     *)
(* construction of the authenticator (completedOptions.ApplyTo and         *)
(* getAuthenticator).                                                      *)
(*                                                                         *)
(* Representation of Go values:                                            *)
(*  - a Go string is the sequence of its characters, so the empty string   *)
(*    is <<>> and len(s) == 0 is s = <<>>.  URL texts (issuer, logout       *)
(*    redirect, base URL, endpoints) are written character by character    *)
(*    over the alphabet a-z, A-Z, 0-9 and : / ? # @ . - + =                *)
(*    Strings the code only tests for emptiness and copies (client ID,    *)
(*    file paths) may write a run of characters as one element;            *)
(*  - the two mode strings (AuthType, k8sAuthType), which the code only    *)
(*    compares with literals, are TLA+ strings;                            *)
(*  - a pointer is a sequence of length at most one: Nil is <<>>.          *)
(***************************************************************************)
EXTENDS Integers, Sequences, FiniteSets, TLC

VARIABLES
    c,          \* the *AuthOptions receiver (mutated in place)
    input,      \* c as it was when Complete was entered (history)
    k8sAuthType,\* the k8sAuthType argument of the last Validate/Complete
    phase,      \* "flags", "completed", "failed", "applied", "fatal"
    validated,  \* Nil or <<the []error of the last direct Validate call>>
    completed,  \* *CompletedOptions returned by Complete (Nil if none)
    err,        \* the error returned by Complete
    urlParses,  \* number of url.Parse calls made by Complete
    fileReads,  \* number of os.ReadFile calls made by Complete
    srv,        \* the *server.Server handed to ApplyTo
    authConfig, \* Nil or <<the *auth.Config handed to auth.NewAuthenticator>>
    applyErr,   \* Nil or <<the error returned by ApplyTo>>
    runtime,    \* Nil or <<the arguments ApplyTo was called with>> (history)
    lastConfig, \* Nil or <<the *serverconfig.Auth of the last ApplyConfig>>
    applyCount  \* number of ApplyConfig calls so far

vars == <<c, input, k8sAuthType, phase, validated, completed, err, urlParses,
          fileReads, srv, authConfig, applyErr, runtime, lastConfig,
          applyCount>>

Nil == <<>>
Ptr(x) == <<x>>
Deref(p) == p[1]

\* F applied to the value of e, with e evaluated once
Apply(F(_), e) == CHOOSE r \in {F(x) : x \in {e}} : TRUE

(***************************************************************************)
(* Bounds and input domains.                                               *)
(***************************************************************************)
MaxApply == 2

MinInactivityTimeout == 300

AuthTypeValues == {"", "disabled", "oidc", "openshift", "basic"}
K8sAuthTypeValues == {"oidc", "openshift", "disabled"}

IssuerGood ==
    <<"h", "t", "t", "p", "s", ":", "/", "/", "i", "d", "p", ".", "e", "x",
      "a", "m", "p", "l", "e", ".", "c", "o", "m">>
\* the same issuer as typed with an upper-case scheme
IssuerUpper ==
    <<"H", "T", "T", "P", "S", ":", "/", "/", "i", "d", "p", ".", "e", "x",
      "a", "m", "p", "l", "e", ".", "c", "o", "m">>
\* an absolute redirect with a path, a query and a fragment
LogoutGood ==
    <<"h", "t", "t", "p", "s", ":", "/", "/", "s", "s", "o", ".", "e", "x",
      "a", "m", "p", "l", "e", ".", "c", "o", "m", "/", "l", "o", "g", "o",
      "u", "t", "?", "n", "e", "x", "t", "=", "a", "#", "t", "o", "p">>
\* url.Parse fails on it: missing protocol scheme
Malformed == <<":", "b", "a", "d">>

IssuerValues == {<<>>, IssuerGood, IssuerUpper, Malformed}
LogoutValues == {<<>>, LogoutGood, Malformed}
ClientIDValues == {<<>>, <<"console">>}
InlineSecret == <<"s", "3", "c", "r", "3", "t">>
SecretValues == {<<>>, InlineSecret}
SecretGoodPath == <<"/", "secret", "/", "good">>
SecretEmptyPath == <<"/", "secret", "/", "empty">>
SecretMissingPath == <<"/", "secret", "/", "missing">>
SecretFileValues == {<<>>, SecretGoodPath, SecretEmptyPath, SecretMissingPath}
CAFileValues == {<<>>, <<"/", "ca.pem">>}
TimeoutValues == {-1, 0, 299, 300}

\* The file system os.ReadFile reads: a file holding "abc123\n", an empty
\* file, and a path with no file behind it.
NoFile == [ok |-> FALSE, buf |-> <<>>]
FileSystem ==
    [p \in SecretFileValues \ {<<>>} |->
        CASE p = SecretGoodPath ->
                 [ok |-> TRUE, buf |-> <<"a", "b", "c", "1", "2", "3", "\n">>]
          [] p = SecretEmptyPath -> [ok |-> TRUE, buf |-> <<>>]
          [] OTHER -> NoFile]

ReadFile(path) == FileSystem[path]

AuthOptionsValues ==
    [AuthType : AuthTypeValues,
     IssuerURL : IssuerValues,
     ClientID : ClientIDValues,
     ClientSecret : SecretValues,
     ClientSecretFilePath : SecretFileValues,
     CAFilePath : {<<"/", "ca.pem">>},
     InactivityTimeoutSeconds : TimeoutValues,
     LogoutRedirect : LogoutValues]

(***************************************************************************)
(* net/url: url.Parse and URL.String, over the alphabet above (no          *)
(* '%', no control bytes, no brackets, so unescaping is the identity and   *)
(* RawPath/RawFragment carry nothing).                                     *)
(***************************************************************************)
LowerCase ==
    <<"a", "b", "c", "d", "e", "f", "g", "h", "i", "j", "k", "l", "m",
      "n", "o", "p", "q", "r", "s", "t", "u", "v", "w", "x", "y", "z">>
UpperCase ==
    <<"A", "B", "C", "D", "E", "F", "G", "H", "I", "J", "K", "L", "M",
      "N", "O", "P", "Q", "R", "S", "T", "U", "V", "W", "X", "Y", "Z">>
Digits == {"0", "1", "2", "3", "4", "5", "6", "7", "8", "9"}

IsLetter(ch) == \E i \in 1..26 : LowerCase[i] = ch \/ UpperCase[i] = ch

\* strings.ToLower
ToLowerChar(ch) ==
    IF \E i \in 1..26 : UpperCase[i] = ch
    THEN LowerCase[CHOOSE i \in 1..26 : UpperCase[i] = ch] ELSE ch
ToLower(s) == [i \in 1..Len(s) |-> ToLowerChar(s[i])]

\* strings.Index / strings.LastIndex for a one-character separator, counted
\* from 1; 0 when s does not contain it
IndexOf(s, ch) ==
    IF \E i \in 1..Len(s) : s[i] = ch
    THEN CHOOSE i \in 1..Len(s) :
             s[i] = ch /\ \A j \in 1..(i - 1) : s[j] # ch
    ELSE 0
LastIndexOf(s, ch) ==
    IF \E i \in 1..Len(s) : s[i] = ch
    THEN CHOOSE i \in 1..Len(s) :
             s[i] = ch /\ \A j \in (i + 1)..Len(s) : s[j] # ch
    ELSE 0
Contains(s, ch) == IndexOf(s, ch) # 0
CountOf(s, ch) == Cardinality({i \in 1..Len(s) : s[i] = ch})
HasPrefix(s, prefix) ==
    Len(s) >= Len(prefix) /\ SubSeq(s, 1, Len(prefix)) = prefix
HasSuffix(s, suffix) ==
    Len(s) >= Len(suffix)
    /\ SubSeq(s, Len(s) - Len(suffix) + 1, Len(s)) = suffix

\* strings.Cut(s, ch): before and after the first ch, or (s, "")
CutBefore(s, ch) ==
    IF Contains(s, ch) THEN SubSeq(s, 1, IndexOf(s, ch) - 1) ELSE s
CutAfter(s, ch) ==
    IF Contains(s, ch) THEN SubSeq(s, IndexOf(s, ch) + 1, Len(s)) ELSE <<>>

\* escape(s, mode): every character of escaped replaced by its %XX form
PercentCode(ch) ==
    CASE ch = "@" -> <<"%", "4", "0">>
      [] ch = "/" -> <<"%", "2", "F">>
      [] ch = "?" -> <<"%", "3", "F">>
      [] ch = ":" -> <<"%", "3", "A">>
      [] ch = "#" -> <<"%", "2", "3">>
      [] OTHER -> <<ch>>
IsEscaped(s, i, escaped) == s[i] \in escaped
\* where character i of s starts in the escaped text, less one
EscapeOffset(s, i, escaped) ==
    (i - 1) + 2 * Cardinality({k \in 1..(i - 1) : IsEscaped(s, k, escaped)})
Escape(s, escaped) ==
    IF \A i \in 1..Len(s) : ~IsEscaped(s, i, escaped) THEN s
    ELSE [j \in 1..EscapeOffset(s, Len(s) + 1, escaped) |->
            LET i == CHOOSE i \in 1..Len(s) :
                         /\ EscapeOffset(s, i, escaped) < j
                         /\ j <= EscapeOffset(s, i + 1, escaped)
            IN  IF IsEscaped(s, i, escaped)
                THEN PercentCode(s[i])[j - EscapeOffset(s, i, escaped)]
                ELSE s[i]]

\* shouldEscape, per mode, restricted to the alphabet
EscapedInPath == {"?", "#"}
EscapedInHost == {"@", "/", "?", "#"}
EscapedInUserPassword == {"@", "/", "?", ":", "#"}
EscapedInFragment == {"#"}

EmptyURL ==
    [Scheme |-> <<>>, Opaque |-> <<>>, User |-> Nil, Host |-> <<>>,
     Path |-> <<>>, OmitHost |-> FALSE, ForceQuery |-> FALSE,
     RawQuery |-> <<>>, Fragment |-> <<>>]

ParseError == [ok |-> FALSE, url |-> EmptyURL]

\* getScheme: [ok, scheme, rest].  The scan over rawURL ends at the first
\* character that is neither a letter nor, after the first position, one
\* of 0-9 + - .
SchemeScanEnds(rawURL, i) ==
    /\ ~IsLetter(rawURL[i])
    /\ ~(rawURL[i] \in Digits \cup {"+", "-", "."} /\ i > 1)

getScheme(rawURL) ==
    LET ends == {i \in 1..Len(rawURL) : SchemeScanEnds(rawURL, i)}
        i == CHOOSE e \in ends : \A f \in ends : e <= f
    IN  IF ends = {} \/ rawURL[i] # ":"
        THEN [ok |-> TRUE, scheme |-> <<>>, rest |-> rawURL]
        ELSE IF i = 1 THEN [ok |-> FALSE, scheme |-> <<>>, rest |-> <<>>]
        ELSE [ok |-> TRUE, scheme |-> SubSeq(rawURL, 1, i - 1),
              rest |-> SubSeq(rawURL, i + 1, Len(rawURL))]

\* validOptionalPort: "" or ":" followed by digits
validOptionalPort(port) ==
    \/ port = <<>>
    \/ port[1] = ":" /\ \A i \in 2..Len(port) : port[i] \in Digits

\* parseHost: [ok, host]; fails on an invalid port after the host
parseHost(host) ==
    LET i == LastIndexOf(host, ":")
    IN  IF i # 0 /\ ~validOptionalPort(SubSeq(host, i, Len(host)))
        THEN [ok |-> FALSE, host |-> <<>>]
        ELSE [ok |-> TRUE, host |-> host]

\* parseAuthority: [ok, user, host]; userinfo is split off at the last '@'
\* (validUserinfo accepts every userinfo over the alphabet)
parseUserinfo(userinfo) ==
    IF ~Contains(userinfo, ":")
    THEN [username |-> userinfo, password |-> <<>>, passwordSet |-> FALSE]
    ELSE [username |-> CutBefore(userinfo, ":"),
          password |-> CutAfter(userinfo, ":"), passwordSet |-> TRUE]

parseAuthorityAt(authority, i) ==
    LET withHost(h) ==
            IF ~h.ok THEN [ok |-> FALSE, user |-> Nil, host |-> <<>>]
            ELSE IF i = 0 THEN [ok |-> TRUE, user |-> Nil, host |-> h.host]
            ELSE [ok |-> TRUE,
                  user |-> Ptr(Apply(parseUserinfo,
                                     SubSeq(authority, 1, i - 1))),
                  host |-> h.host]
    IN  Apply(withHost,
              Apply(parseHost, SubSeq(authority, i + 1, Len(authority))))

parseAuthority(authority) ==
    LET at(i) == parseAuthorityAt(authority, i)
    IN  Apply(at, LastIndexOf(authority, "@"))

\* parse, from the test of the leading slash on: u0 carries the scheme and
\* the query, rest is what is left of the text
parseHier(u0, rest) ==
    LET hasAuthority ==
            (u0.Scheme # <<>> \/ ~HasPrefix(rest, <<"/", "/", "/">>))
            /\ HasPrefix(rest, <<"/", "/">>)
        split(k) ==
            LET withAuthority(pa) ==
                    IF ~pa.ok THEN ParseError
                    ELSE [ok |-> TRUE,
                          url |-> [u0 EXCEPT
                                     !.User = pa.user, !.Host = pa.host,
                                     !.Path = IF k # 0
                                              THEN SubSeq(rest, k + 2,
                                                          Len(rest))
                                              ELSE <<>>]]
            IN  Apply(withAuthority,
                      Apply(parseAuthority,
                            IF k # 0 THEN SubSeq(rest, 3, k + 1)
                            ELSE SubSeq(rest, 3, Len(rest))))
    IN  IF ~HasPrefix(rest, <<"/">>) /\ u0.Scheme # <<>>
        THEN [ok |-> TRUE, url |-> [u0 EXCEPT !.Opaque = rest]]
        ELSE IF ~HasPrefix(rest, <<"/">>)
                /\ Contains(CutBefore(rest, "/"), ":")
        THEN ParseError
        ELSE IF hasAuthority
        THEN Apply(split, IndexOf(SubSeq(rest, 3, Len(rest)), "/"))
        ELSE IF u0.Scheme # <<>> /\ HasPrefix(rest, <<"/">>)
        THEN [ok |-> TRUE, url |-> [u0 EXCEPT !.OmitHost = TRUE,
                                              !.Path = rest]]
        ELSE [ok |-> TRUE, url |-> [u0 EXCEPT !.Path = rest]]

\* parse, from the split of the query on
parseQuery(scheme, rest) ==
    LET force == HasSuffix(rest, <<"?">>) /\ CountOf(rest, "?") = 1
        hier(r) ==
            parseHier([EmptyURL EXCEPT
                         !.Scheme = scheme, !.ForceQuery = force,
                         !.RawQuery = IF force THEN <<>>
                                      ELSE CutAfter(rest, "?")], r)
    IN  Apply(hier, IF force THEN SubSeq(rest, 1, Len(rest) - 1)
                    ELSE CutBefore(rest, "?"))

\* parse(rawURL, viaRequest = false): [ok, url], the fragment already cut
parse(rawURL) ==
    LET withScheme(gs) ==
            LET lower(scheme) == parseQuery(scheme, gs.rest)
            IN  IF ~gs.ok THEN ParseError
                ELSE Apply(lower, ToLower(gs.scheme))
    IN  Apply(withScheme, getScheme(rawURL))

\* url.Parse: [ok, url]
URLParse(rawURL) ==
    LET withFragment(r) ==
            IF ~r.ok THEN ParseError
            ELSE [ok |-> TRUE,
                  url |-> [r.url EXCEPT !.Fragment = CutAfter(rawURL, "#")]]
    IN  Apply(withFragment, Apply(parse, CutBefore(rawURL, "#")))

\* (*Userinfo).String
UserinfoString(user) ==
    Escape(user.username, EscapedInUserPassword)
    \o (IF user.passwordSet
        THEN <<":">> \o Escape(user.password, EscapedInUserPassword)
        ELSE <<>>)

\* (*url.URL).String
URLString(u) ==
    LET scheme == IF u.Scheme # <<>> THEN u.Scheme \o <<":">> ELSE <<>>
        authority ==
            IF (u.Scheme # <<>> \/ u.Host # <<>> \/ u.User # Nil)
               /\ ~(u.OmitHost /\ u.Host = <<>> /\ u.User = Nil)
            THEN (IF u.Host # <<>> \/ u.Path # <<>> \/ u.User # Nil
                  THEN <<"/", "/">> ELSE <<>>)
                 \o (IF u.User # Nil
                     THEN UserinfoString(Deref(u.User)) \o <<"@">>
                     ELSE <<>>)
                 \o Escape(u.Host, EscapedInHost)
            ELSE <<>>
        path == Escape(u.Path, EscapedInPath)
        sep == IF path # <<>> /\ path[1] # "/" /\ u.Host # <<>>
               THEN <<"/">> ELSE <<>>
        dot == IF scheme \o authority \o sep = <<>>
                  /\ Contains(CutBefore(path, "/"), ":")
               THEN <<".", "/">> ELSE <<>>
        hier == IF u.Opaque # <<>> THEN u.Opaque
                ELSE authority \o sep \o dot \o path
        query == IF u.ForceQuery \/ u.RawQuery # <<>>
                 THEN <<"?">> \o u.RawQuery ELSE <<>>
        fragment == IF u.Fragment # <<>>
                    THEN <<"#">> \o Escape(u.Fragment, EscapedInFragment)
                    ELSE <<>>
    IN  scheme \o hier \o query \o fragment

(***************************************************************************)
(* The URLs of the model.  url.Parse and URL.String are functions of       *)
(* their argument alone; Parsed and Rendered hold their results on the     *)
(* texts and URLs the model handles.                                       *)
(***************************************************************************)
\* the console base URLs the server may be started with
ConsoleHost ==
    <<"c", "o", "n", "s", "o", "l", "e", ".", "e", "x", "a", "m", "p", "l",
      "e", ".", "c", "o", "m">>
ConsoleHTTPS ==
    [EmptyURL EXCEPT !.Scheme = <<"h", "t", "t", "p", "s">>,
                     !.Host = ConsoleHost]
ConsoleHTTP ==
    [EmptyURL EXCEPT !.Scheme = <<"h", "t", "t", "p">>, !.Host = ConsoleHost]
ConsoleHTTPSPath ==
    [ConsoleHTTPS EXCEPT !.Path = <<"/", "c", "o", "n", "s", "o", "l", "e", "/">>]

BaseURLValues == {ConsoleHTTPS, ConsoleHTTP, ConsoleHTTPSPath, EmptyURL}

K8sEndpointValues ==
    {Ptr([EmptyURL EXCEPT
            !.Scheme = <<"h", "t", "t", "p", "s">>,
            !.Host = <<"k", "u", "b", "e", "r", "n", "e", "t", "e", "s", ".",
                      "d", "e", "f", "a", "u", "l", "t", ".", "s", "v", "c">>])}
PubAPIServerEndpointValues ==
    {<<"h", "t", "t", "p", "s", ":", "/", "/", "a", "p", "i", ".", "e", "x",
      "a", "m", "p", "l", "e", ".", "c", "o", "m">>}
CACertFileValues == {<<"/", "k8s-ca.crt">>}

URLTexts == IssuerValues \cup LogoutValues
ParsedTexts == [t \in URLTexts |-> URLParse(t)]
\* url.Parse(t)
Parsed(t) == ParsedTexts[t]

KnownURLs ==
    BaseURLValues \cup {Deref(e) : e \in K8sEndpointValues}
        \cup {ParsedTexts[t].url : t \in URLTexts}
RenderedURLs == [u \in KnownURLs |-> URLString(u)]
\* u.String()
Rendered(u) == RenderedURLs[u]

(***************************************************************************)
(* ApplyConfig                                                             *)
(***************************************************************************)
ConfigValues ==
    [ClientID : {<<>>, <<"cfg-console">>},
     ClientSecretFile : {<<>>, SecretGoodPath},
     OAuthEndpointCAFile : {<<>>, <<"/", "cfg-ca.pem">>},
     LogoutRedirect : {<<>>, LogoutGood},
     InactivityTimeoutSeconds : {0, 600}]

\* setIfUnset(&flagVal, val): the new value of *flagVal
setIfUnsetOverride(flagVal, val) == val

setIfUnset(flagVal, val) ==
    IF Len(flagVal) = 0 THEN val ELSE flagVal

ApplyConfigOp(o, config) ==
    [o EXCEPT
        !.ClientID = setIfUnset(o.ClientID, config.ClientID),
        !.ClientSecretFilePath =
            setIfUnset(o.ClientSecretFilePath, config.ClientSecretFile),
        !.CAFilePath = setIfUnset(o.CAFilePath, config.OAuthEndpointCAFile),
        !.LogoutRedirect =
            setIfUnset(o.LogoutRedirect, config.LogoutRedirect),
        !.InactivityTimeoutSeconds =
            IF o.InactivityTimeoutSeconds = 0
            THEN config.InactivityTimeoutSeconds
            ELSE o.InactivityTimeoutSeconds]

(***************************************************************************)
(* Validate                                                                *)
(***************************************************************************)
ErrRequiredClientID == "required flag: user-auth-oidc-client-id"
ErrNoSecret == "must provide either client-secret or client-secret-file"
ErrBothSecrets == "cannot provide both client-secret and client-secret-file"
ErrInvalidAuthType == "invalid flag: user-auth"
ErrIssuerWithOpenShift == "invalid flag: user-auth-oidc-issuer-url"
ErrIssuerMissing == "user-auth-oidc-issuer-url must be set"
ErrInactivityTimeout == "invalid flag: inactivity-timeout"

\* first switch on c.AuthType
ClientErrs(o) ==
    IF o.AuthType \in {"openshift", "oidc"}
    THEN (IF Len(o.ClientID) = 0 THEN <<ErrRequiredClientID>> ELSE <<>>)
         \o (IF o.ClientSecret = <<>> /\ o.ClientSecretFilePath = <<>>
             THEN <<ErrNoSecret>> ELSE <<>>)
         \o (IF o.ClientSecret # <<>> /\ o.ClientSecretFilePath # <<>>
             THEN <<ErrBothSecrets>> ELSE <<>>)
    ELSE IF o.AuthType = "disabled" THEN <<>>
    ELSE <<ErrInvalidAuthType>>

\* second switch on c.AuthType
IssuerErrsNoOIDC(o) ==
    IF o.AuthType = "openshift" /\ o.IssuerURL # <<>>
    THEN <<ErrIssuerWithOpenShift>> ELSE <<>>

IssuerErrs(o) ==
    CASE o.AuthType = "openshift" ->
            IF o.IssuerURL # <<>> THEN <<ErrIssuerWithOpenShift>> ELSE <<>>
      [] o.AuthType = "oidc" ->
            IF o.IssuerURL = <<>> THEN <<ErrIssuerMissing>> ELSE <<>>
      [] OTHER -> <<>>

\* switch on k8sAuthType
TimeoutErrsOwnMode(o, k) ==
    IF o.AuthType \notin {"oidc", "openshift"} /\ o.InactivityTimeoutSeconds > 0
    THEN <<ErrInactivityTimeout>> ELSE <<>>

TimeoutErrs(o, k) ==
    IF k \in {"oidc", "openshift"} THEN <<>>
    ELSE IF o.InactivityTimeoutSeconds > 0
         THEN <<ErrInactivityTimeout>> ELSE <<>>

ValidateFirstOnly(o, k) ==
    LET all == ClientErrs(o) \o IssuerErrs(o) \o TimeoutErrs(o, k)
    IN IF all = <<>> THEN <<>> ELSE <<Head(all)>>

ValidateOp(o, k) == ClientErrs(o) \o IssuerErrs(o) \o TimeoutErrs(o, k)

(***************************************************************************)
(* Complete                                                                *)
(***************************************************************************)
\* if len(c.AuthType) == 0 { c.AuthType = "openshift" }
DefaultAuthType(o) ==
    IF o.AuthType = "" THEN [o EXCEPT !.AuthType = "openshift"] ELSE o

\* if c.InactivityTimeoutSeconds < 300 { c.InactivityTimeoutSeconds = 0 }
ClampTimeoutNever(o) == o

ClampTimeout(o) ==
    IF o.InactivityTimeoutSeconds < MinInactivityTimeout
    THEN [o EXCEPT !.InactivityTimeoutSeconds = 0] ELSE o

\* the trailing line break of s removed
TrimNewline(s) ==
    IF Len(s) > 0 /\ s[Len(s)] = "\n" THEN SubSeq(s, 1, Len(s) - 1) ELSE s

\* completed.ClientSecret once the file, if any, was read into buf
ClientSecretOfTrimmed(o, buf) ==
    IF Len(o.ClientSecretFilePath) > 0 THEN TrimNewline(buf)
    ELSE o.ClientSecret

ClientSecretOf(o, buf) ==
    IF Len(o.ClientSecretFilePath) > 0 THEN buf ELSE o.ClientSecret

NoError == [kind |-> "nil", errs |-> <<>>]
Aggregate(errs) == [kind |-> "aggregate", errs |-> errs]
ErrInvalidIssuerURL == [kind |-> "invalid issuer URL", errs |-> <<>>]
ErrInvalidLogoutURL == [kind |-> "invalid logout redirect URL", errs |-> <<>>]
ErrReadSecretFile ==
    [kind |-> "failed to read client secret file", errs |-> <<>>]

CompleteFail(o, e, parses, reads) ==
    [c |-> o, completed |-> Nil, err |-> e,
     urlParses |-> parses, fileReads |-> reads]

\* Complete(k8sAuthType): the receiver as it is left, the two results, and
\* the number of url.Parse and os.ReadFile calls made on the way
CompleteOp(o, k) ==
    LET o2 == ClampTimeout(DefaultAuthType(o))
        errs == ValidateOp(o2, k)
        hasIssuer == Len(o2.IssuerURL) > 0
        hasLogout == Len(o2.LogoutRedirect) > 0
        hasFile == Len(o2.ClientSecretFilePath) > 0
        issuer == Parsed(o2.IssuerURL)
        logout == Parsed(o2.LogoutRedirect)
        file == IF hasFile THEN ReadFile(o2.ClientSecretFilePath) ELSE NoFile
        n1 == IF hasIssuer THEN 1 ELSE 0
        n2 == n1 + (IF hasLogout THEN 1 ELSE 0)
        n3 == IF hasFile THEN 1 ELSE 0
    IN  IF Len(errs) > 0 THEN CompleteFail(o2, Aggregate(errs), 0, 0)
        ELSE IF hasIssuer /\ ~issuer.ok
        THEN CompleteFail(o2, ErrInvalidIssuerURL, n1, 0)
        ELSE IF hasLogout /\ ~logout.ok
        THEN CompleteFail(o2, ErrInvalidLogoutURL, n2, 0)
        ELSE IF hasFile /\ ~file.ok
        THEN CompleteFail(o2, ErrReadSecretFile, n2, n3)
        ELSE [c |-> o2,
              completed |-> Ptr(
                [AuthType |-> o2.AuthType,
                 IssuerURL |-> IF hasIssuer THEN Ptr(issuer.url) ELSE Nil,
                 ClientID |-> o2.ClientID,
                 ClientSecret |-> ClientSecretOf(o2, file.buf),
                 CAFilePath |-> o2.CAFilePath,
                 InactivityTimeoutSeconds |-> o2.InactivityTimeoutSeconds,
                 LogoutRedirectURL |->
                     IF hasLogout THEN Ptr(logout.url) ELSE Nil]),
              err |-> NoError,
              urlParses |-> n2,
              fileReads |-> n3]

(***************************************************************************)
(* ApplyTo and getAuthenticator                                            *)
(***************************************************************************)
\* proxy.SingleJoiningSlash: a and b joined by exactly one slash
SingleJoiningSlash(a, b) ==
    LET aslash == Len(a) > 0 /\ a[Len(a)] = "/"
        bslash == Len(b) > 0 /\ b[1] = "/"
    IN  IF aslash /\ bslash THEN a \o Tail(b)
        ELSE IF ~aslash /\ ~bslash THEN a \o <<"/">> \o b
        ELSE a \o b

ApiPath == <<"/", "a", "p", "i", "/">>

\* cookiePath = proxy.SingleJoiningSlash(baseURL.Path, "/api/")
CookiePathOfFullURL(baseURL) == SingleJoiningSlash(Rendered(baseURL), ApiPath)

CookiePath(baseURL) == SingleJoiningSlash(baseURL.Path, ApiPath)

\* useSecureCookies = baseURL.Scheme == "https"
UseSecureCookies(baseURL) == baseURL.Scheme = <<"h", "t", "t", "p", "s">>

OIDCScopes == <<"openid", "email", "profile", "groups">>
OpenShiftScopes == <<"user:full">>

\* the if c.AuthType == "openshift" { ... } else { ... } of getAuthenticator:
\* scopes, authSource and userAuthOIDCIssuerURL
SourceSelectionSameScopes(p, k8sEndpoint) ==
    IF p.AuthType = "openshift"
    THEN [Scope |-> OIDCScopes, AuthSource |-> "AuthSourceOpenShift",
          IssuerURL |-> k8sEndpoint]
    ELSE [Scope |-> OIDCScopes, AuthSource |-> "AuthSourceTectonic",
          IssuerURL |-> p.IssuerURL]

SourceSelection(p, k8sEndpoint) ==
    IF p.AuthType = "openshift"
    THEN [Scope |-> OpenShiftScopes, AuthSource |-> "AuthSourceOpenShift",
          IssuerURL |-> k8sEndpoint]
    ELSE [Scope |-> OIDCScopes, AuthSource |-> "AuthSourceTectonic",
          IssuerURL |-> p.IssuerURL]

\* oidcClientConfig; RedirectURL, ErrorURL and SuccessURL, joined from
\* endpoint constants of package server, and the transport are left out
OIDCClientConfig(p, baseURL, k8sEndpoint, pubAPIServer, caCertFile) ==
    LET sel == SourceSelection(p, k8sEndpoint)
    IN  [AuthSource |-> sel.AuthSource,
         IssuerURL |-> Rendered(Deref(sel.IssuerURL)),
         IssuerCA |-> p.CAFilePath,
         ClientID |-> p.ClientID,
         ClientSecret |-> p.ClientSecret,
         Scope |-> sel.Scope,
         K8sCA |-> caCertFile,
         CookiePath |-> CookiePath(baseURL),
         RefererPath |-> Rendered(baseURL),
         SecureCookies |-> UseSecureCookies(baseURL),
         K8sHost |-> pubAPIServer]

\* flags.ValidateFlagNotEmpty("base-address", baseURL.String()) fails
BaseAddressMissing(baseURL) == Rendered(baseURL) = <<>>

\* srv.InactivityTimeout = ...; srv.LogoutRedirect = ...
AttachSessionIfAuthenticated(s, p) ==
    IF p.AuthType = "disabled" THEN s
    ELSE [s EXCEPT !.InactivityTimeout = p.InactivityTimeoutSeconds,
                   !.LogoutRedirect = p.LogoutRedirectURL]

AttachSession(s, p) ==
    [s EXCEPT !.InactivityTimeout = p.InactivityTimeoutSeconds,
              !.LogoutRedirect = p.LogoutRedirectURL]

TheAuthenticator == Ptr("authenticator")

(***************************************************************************)
(* State machine                                                           *)
(***************************************************************************)
NewServer(baseURL) ==
    [BaseURL |-> baseURL, InactivityTimeout |-> 0, LogoutRedirect |-> Nil,
     Authenticator |-> Nil]

InitWith(o, baseURL) ==
    /\ c = o
    /\ input = o
    /\ k8sAuthType = ""
    /\ phase = "flags"
    /\ validated = Nil
    /\ completed = Nil
    /\ err = NoError
    /\ urlParses = 0
    /\ fileReads = 0
    /\ srv = NewServer(baseURL)
    /\ authConfig = Nil
    /\ applyErr = Nil
    /\ runtime = Nil
    /\ lastConfig = Nil
    /\ applyCount = 0

Init == \E o \in AuthOptionsValues, b \in BaseURLValues : InitWith(o, b)

\* the flags before the config file is applied
MergeOptionsValues ==
    [AuthType : {"", "oidc"},
     IssuerURL : {<<>>, IssuerGood},
     ClientID : ClientIDValues,
     ClientSecret : SecretValues,
     ClientSecretFilePath : {<<>>, SecretEmptyPath},
     CAFilePath : CAFileValues,
     InactivityTimeoutSeconds : {-1, 0, 300},
     LogoutRedirect : {<<>>, Malformed}]

InitMerge ==
    \E o \in MergeOptionsValues :
        /\ (o.AuthType = "") = (o.IssuerURL = <<>>)
        /\ (o.AuthType = "") = (o.ClientSecret = <<>>)
        /\ InitWith(o, EmptyURL)

ApplyConfig(config) ==
    /\ phase = "flags"
    /\ applyCount < MaxApply
    /\ c' = ApplyConfigOp(c, config)
    /\ lastConfig' = Ptr(config)
    /\ applyCount' = applyCount + 1
    /\ UNCHANGED <<input, k8sAuthType, phase, validated, completed, err,
                   urlParses, fileReads, srv, authConfig, applyErr, runtime>>

Validate(k) ==
    /\ phase = "flags"
    /\ validated = Nil
    /\ validated' = Ptr(ValidateOp(c, k))
    /\ k8sAuthType' = k
    /\ UNCHANGED <<c, input, phase, completed, err, urlParses, fileReads,
                   srv, authConfig, applyErr, runtime, lastConfig,
                   applyCount>>

Complete(k) ==
    LET r == CompleteOp(c, k)
    IN  /\ phase = "flags"
        /\ input' = c
        /\ k8sAuthType' = k
        /\ c' = r.c
        /\ completed' = r.completed
        /\ err' = r.err
        /\ urlParses' = r.urlParses
        /\ fileReads' = r.fileReads
        /\ phase' = IF r.completed = Nil THEN "failed" ELSE "completed"
        /\ UNCHANGED <<validated, srv, authConfig, applyErr, runtime,
                       lastConfig, applyCount>>

\* ApplyTo(srv, k8sEndpoint, pubAPIServerEndpoint, caCertFilePath);
\* constructed is whether auth.NewAuthenticator returns an authenticator.
\* flags.FatalIfFailed and klog.Fatalf end the process (phase "fatal").
ApplyTo(k8sEndpoint, pubAPIServerEndpoint, caCertFilePath, constructed) ==
    LET p == Deref(completed)
        s == AttachSession(srv, p)
    IN  /\ phase = "completed"
        /\ runtime' = Ptr([k8sEndpoint |-> k8sEndpoint,
                           pubAPIServerEndpoint |-> pubAPIServerEndpoint,
                           caCertFilePath |-> caCertFilePath,
                           constructed |-> constructed])
        /\ IF p.AuthType = "disabled"
           THEN /\ srv' = [s EXCEPT !.Authenticator = Nil]
                /\ authConfig' = authConfig
                /\ applyErr' = Ptr(NoError)
                /\ phase' = "applied"
           ELSE IF BaseAddressMissing(srv.BaseURL)
           THEN /\ srv' = s
                /\ authConfig' = authConfig
                /\ applyErr' = applyErr
                /\ phase' = "fatal"
           ELSE /\ authConfig' = Ptr(OIDCClientConfig(p, srv.BaseURL,
                                       k8sEndpoint, pubAPIServerEndpoint,
                                       caCertFilePath))
                /\ IF constructed
                   THEN /\ srv' = [s EXCEPT !.Authenticator = TheAuthenticator]
                        /\ applyErr' = Ptr(NoError)
                        /\ phase' = "applied"
                   ELSE /\ srv' = s
                        /\ applyErr' = applyErr
                        /\ phase' = "fatal"
        /\ UNCHANGED <<c, input, k8sAuthType, validated, completed, err,
                       urlParses, fileReads, lastConfig, applyCount>>

Next ==
    \/ \E k \in K8sAuthTypeValues : Validate(k)
    \/ \E k \in K8sAuthTypeValues : Complete(k)
    \/ \E e \in K8sEndpointValues, a \in PubAPIServerEndpointValues,
          f \in CACertFileValues, ok \in BOOLEAN : ApplyTo(e, a, f, ok)

Spec == Init /\ [][Next]_vars

NextMerge == \E config \in ConfigValues : ApplyConfig(config)

SpecMerge == InitMerge /\ [][NextMerge]_vars

(***************************************************************************)
(* Properties                                                              *)
(***************************************************************************)
Range(q) == {q[i] : i \in DOMAIN q}
Count(q, x) == Cardinality({i \in DOMAIN q : q[i] = x})

PlatformHasSessions(k) == k \in {"oidc", "openshift"}
SecretForms(o) ==
    (IF o.ClientSecret # <<>> THEN 1 ELSE 0)
    + (IF o.ClientSecretFilePath # <<>> THEN 1 ELSE 0)

\* the mode rules of the Validator, as the specification lists them
ModeRuleViolated(o) ==
    \/ o.ClientID = <<>>
    \/ SecretForms(o) # 1
    \/ o.AuthType = "openshift" /\ o.IssuerURL # <<>>
    \/ o.AuthType = "oidc" /\ o.IssuerURL = <<>>

CompleteHasRun == phase # "flags"

\* Validate was called on the options c with platform mode k8sAuthType and
\* the options were not touched since
ValidateHasRun == phase = "flags" /\ validated # Nil

\* C1 (as stated): for mode oidc or openshift and every platform mode,
\* Validate returns a non-empty error list if and only if the client ID is
\* empty, or not exactly one secret form is set, or (openshift and issuer
\* set), or (oidc and issuer unset).
C1_Original ==
    (ValidateHasRun /\ c.AuthType \in {"oidc", "openshift"})
        => ((Len(Deref(validated)) > 0) <=> ModeRuleViolated(c))

\* C1 (amended): for mode oidc or openshift, Validate returns a non-empty
\* error list if and only if one of the four mode rules is violated or the
\* platform mode is neither oidc nor openshift and the timeout is positive.
C1_Amended ==
    (ValidateHasRun /\ c.AuthType \in {"oidc", "openshift"})
        => ((Len(Deref(validated)) > 0)
               <=> (\/ ModeRuleViolated(c)
                    \/ (~PlatformHasSessions(k8sAuthType)
                        /\ c.InactivityTimeoutSeconds > 0)))

C1_Witness ==
    /\ ValidateHasRun
    /\ c.AuthType = "oidc"
    /\ ~ModeRuleViolated(c)
    /\ k8sAuthType = "disabled"
    /\ c.InactivityTimeoutSeconds = 300
    /\ Deref(validated) = <<ErrInactivityTimeout>>

\* C2 (as stated): Validate reports the inactivity-timeout error exactly
\* when the platform mode is neither oidc nor openshift and the timeout is
\* non-zero, whatever the policy's own mode.
C2_Original ==
    ValidateHasRun
        => ((ErrInactivityTimeout \in Range(Deref(validated)))
               <=> (~PlatformHasSessions(k8sAuthType)
                    /\ c.InactivityTimeoutSeconds # 0))

\* C2 (amended): Validate reports the inactivity-timeout error exactly when
\* the platform mode is neither oidc nor openshift and the timeout is
\* positive, whatever the policy's own mode; a policy with mode disabled
\* and a positive timeout is accepted when the platform mode is oidc or
\* openshift and rejected otherwise.
C2_Amended ==
    ValidateHasRun
        => /\ (ErrInactivityTimeout \in Range(Deref(validated)))
                 <=> (~PlatformHasSessions(k8sAuthType)
                      /\ c.InactivityTimeoutSeconds > 0)
           /\ (c.AuthType = "disabled" /\ c.InactivityTimeoutSeconds > 0)
                 => ((Deref(validated) = <<>>)
                        <=> PlatformHasSessions(k8sAuthType))

C2_Witness ==
    /\ ValidateHasRun
    /\ c.AuthType = "disabled"
    /\ c.InactivityTimeoutSeconds = 300
    /\ k8sAuthType = "oidc"
    /\ Deref(validated) = <<>>

\* C3: Complete sets a timeout t with 0 < t < 300 to 0, leaves t = 0 and
\* t >= 300 unchanged and defaults an empty mode to openshift, all before
\* Validate runs: the timeout left in the options and in any policy is 0
\* or >= 300, and a timeout in 1..299 never yields the timeout error.
C3_ClampBeforeValidate ==
    CompleteHasRun
        => /\ (0 < input.InactivityTimeoutSeconds
               /\ input.InactivityTimeoutSeconds < 300)
                 => c.InactivityTimeoutSeconds = 0
           /\ (input.InactivityTimeoutSeconds = 0
               \/ input.InactivityTimeoutSeconds >= 300)
                 => c.InactivityTimeoutSeconds
                        = input.InactivityTimeoutSeconds
           /\ c.AuthType = (IF input.AuthType = "" THEN "openshift"
                            ELSE input.AuthType)
           /\ (c.InactivityTimeoutSeconds = 0
               \/ c.InactivityTimeoutSeconds >= 300)
           /\ completed # Nil
                 => Deref(completed).InactivityTimeoutSeconds
                        = c.InactivityTimeoutSeconds
           /\ input.InactivityTimeoutSeconds \in 1..299
                 => ErrInactivityTimeout \notin Range(err.errs)

C3_Witness ==
    /\ phase = "completed"
    /\ input.AuthType = ""
    /\ input.InactivityTimeoutSeconds = 299
    /\ k8sAuthType = "disabled"
    /\ Deref(completed).AuthType = "openshift"
    /\ Deref(completed).InactivityTimeoutSeconds = 0

\* the rules of the Validator violated by options o under platform mode k
ViolatedRules(o, k) ==
    {r \in {ErrRequiredClientID, ErrNoSecret, ErrBothSecrets,
            ErrInvalidAuthType, ErrIssuerWithOpenShift, ErrIssuerMissing,
            ErrInactivityTimeout} :
        \/ r = ErrInvalidAuthType
           /\ o.AuthType \notin {"disabled", "oidc", "openshift"}
        \/ r = ErrRequiredClientID
           /\ o.AuthType \in {"oidc", "openshift"} /\ o.ClientID = <<>>
        \/ r = ErrNoSecret
           /\ o.AuthType \in {"oidc", "openshift"} /\ SecretForms(o) = 0
        \/ r = ErrBothSecrets
           /\ o.AuthType \in {"oidc", "openshift"} /\ SecretForms(o) = 2
        \/ r = ErrIssuerWithOpenShift
           /\ o.AuthType = "openshift" /\ o.IssuerURL # <<>>
        \/ r = ErrIssuerMissing
           /\ o.AuthType = "oidc" /\ o.IssuerURL = <<>>
        \/ r = ErrInactivityTimeout
           /\ ~PlatformHasSessions(k) /\ o.InactivityTimeoutSeconds # 0}

\* C4: when the defaulted, clamped options violate at least one rule,
\* Complete returns no policy and an aggregate error with one entry per
\* violated rule, and has parsed no URL and read no file.
C4_AggregatesAllErrors ==
    (CompleteHasRun /\ ViolatedRules(c, k8sAuthType) # {})
        => /\ completed = Nil
           /\ err.kind = "aggregate"
           /\ \A r \in ViolatedRules(c, k8sAuthType) : Count(err.errs, r) = 1
           /\ urlParses = 0
           /\ fileReads = 0

C4_Witness ==
    /\ phase = "failed"
    /\ c.AuthType = "oidc"
    /\ c.ClientID # <<>>
    /\ SecretForms(c) = 2
    /\ c.IssuerURL = <<>>
    /\ err.errs = <<ErrBothSecrets, ErrIssuerMissing>>
    /\ urlParses = 0 /\ fileReads = 0

\* C5: every policy returned by Complete has a mode among disabled, oidc,
\* openshift; with mode oidc or openshift a non-empty client ID and a
\* present (non-empty) client secret; with mode oidc a parsed issuer URL;
\* with mode openshift no issuer URL.
C5_PolicyConsistent ==
    completed # Nil
        => LET p == Deref(completed)
           IN  /\ p.AuthType \in {"disabled", "oidc", "openshift"}
               /\ p.AuthType \in {"oidc", "openshift"}
                     => (p.ClientID # <<>> /\ p.ClientSecret # <<>>)
               /\ p.AuthType = "oidc" => p.IssuerURL # Nil
               /\ p.AuthType = "openshift" => p.IssuerURL = Nil

\* C6: in every policy the secret is the inline value when only that is
\* set, the file's contents verbatim when a secret-file path is set, and
\* empty when neither is set; Complete reads the file at most once, and a
\* failed read leaves no policy.
C6_SecretResolved ==
    /\ fileReads <= 1
    /\ completed # Nil
          => LET p == Deref(completed)
             IN  /\ (input.ClientSecret # <<>>
                     /\ input.ClientSecretFilePath = <<>>)
                        => p.ClientSecret = input.ClientSecret
                 /\ input.ClientSecretFilePath # <<>>
                        => /\ FileSystem[input.ClientSecretFilePath].ok
                           /\ p.ClientSecret
                                = FileSystem[input.ClientSecretFilePath].buf
                           /\ fileReads = 1
                 /\ SecretForms(input) = 0 => p.ClientSecret = <<>>
    /\ (CompleteHasRun /\ fileReads = 1
        /\ ~FileSystem[input.ClientSecretFilePath].ok)
          => (completed = Nil /\ err = ErrReadSecretFile)

C6_Witness ==
    /\ phase = "completed"
    /\ input.ClientSecretFilePath = SecretGoodPath
    /\ fileReads = 1
    /\ Deref(completed).ClientSecret = <<"a", "b", "c", "1", "2", "3", "\n">>

\* C7: ApplyConfig leaves each mergeable field at the flag value if that
\* was non-empty/non-zero and sets it to the config value otherwise, leaves
\* mode, issuer URL and inline secret unchanged, and changes nothing when
\* the same config is applied a second time.
C7_ApplyConfigStep ==
    applyCount' = applyCount + 1
        => LET config == Deref(lastConfig')
           IN  /\ c'.ClientID = (IF c.ClientID # <<>> THEN c.ClientID
                                 ELSE config.ClientID)
               /\ c'.ClientSecretFilePath =
                     (IF c.ClientSecretFilePath # <<>>
                      THEN c.ClientSecretFilePath
                      ELSE config.ClientSecretFile)
               /\ c'.CAFilePath = (IF c.CAFilePath # <<>> THEN c.CAFilePath
                                   ELSE config.OAuthEndpointCAFile)
               /\ c'.LogoutRedirect =
                     (IF c.LogoutRedirect # <<>> THEN c.LogoutRedirect
                      ELSE config.LogoutRedirect)
               /\ c'.InactivityTimeoutSeconds =
                     (IF c.InactivityTimeoutSeconds # 0
                      THEN c.InactivityTimeoutSeconds
                      ELSE config.InactivityTimeoutSeconds)
               /\ c'.AuthType = c.AuthType
               /\ c'.IssuerURL = c.IssuerURL
               /\ c'.ClientSecret = c.ClientSecret
               /\ lastConfig' = lastConfig => c' = c

C7_ApplyConfigMerges == [][C7_ApplyConfigStep]_vars

C7_Witness ==
    /\ applyCount = 2
    /\ c.ClientID = <<"cfg-console">>
    /\ c.CAFilePath = <<"/", "ca.pem">>
    /\ c.InactivityTimeoutSeconds = 600
    /\ c.LogoutRedirect = Malformed
    /\ c.AuthType = "oidc"

ApplyToHasRun == phase \in {"applied", "fatal"}

\* C8: getAuthenticator selects by the policy's mode: disabled gives no
\* authenticator, no error and no construction call; openshift passes the
\* OpenShift source, scope user:full and the platform endpoint as issuer;
\* oidc passes the generic OIDC source, the four OIDC scopes and the
\* policy's issuer URL; in these two modes an empty base URL or a failed
\* construction is fatal and leaves no authenticator.
C8_SelectByMode ==
    ApplyToHasRun
        => LET p == Deref(completed)
               rt == Deref(runtime)
           IN  /\ p.AuthType = "disabled"
                     => /\ phase = "applied"
                        /\ srv.Authenticator = Nil
                        /\ applyErr = Ptr(NoError)
                        /\ authConfig = Nil
               /\ (p.AuthType = "openshift" /\ authConfig # Nil)
                     => /\ Deref(authConfig).AuthSource = "AuthSourceOpenShift"
                        /\ Deref(authConfig).Scope = <<"user:full">>
                        /\ Deref(authConfig).IssuerURL
                              = URLString(Deref(rt.k8sEndpoint))
               /\ (p.AuthType = "oidc" /\ authConfig # Nil)
                     => /\ Deref(authConfig).AuthSource = "AuthSourceTectonic"
                        /\ Deref(authConfig).Scope
                              = <<"openid", "email", "profile", "groups">>
                        /\ Deref(authConfig).IssuerURL
                              = URLString(Deref(p.IssuerURL))
               /\ p.AuthType # "disabled"
                     => /\ p.AuthType \in {"oidc", "openshift"}
                        /\ (srv.BaseURL = EmptyURL)
                              => (phase = "fatal" /\ authConfig = Nil)
                        /\ (srv.BaseURL # EmptyURL) => authConfig # Nil
                        /\ (phase = "applied") <=>
                              (srv.BaseURL # EmptyURL /\ rt.constructed)
                        /\ (srv.Authenticator # Nil) <=> (phase = "applied")

C8_Witness ==
    /\ phase = "applied"
    /\ Deref(completed).AuthType = "openshift"
    /\ srv.Authenticator # Nil
    /\ Deref(authConfig).Scope = <<"user:full">>
    /\ Deref(authConfig).IssuerURL =
          <<"h", "t", "t", "p", "s", ":", "/", "/", "k", "u", "b", "e", "r",
            "n", "e", "t", "e", "s", ".", "d", "e", "f", "a", "u", "l", "t",
            ".", "s", "v", "c">>

ScenarioC ==
    /\ ApplyToHasRun
    /\ authConfig # Nil
    /\ Deref(completed).AuthType = "oidc"
    /\ srv.BaseURL = ConsoleHTTPS

\* C9 (as stated): in Scenario C (mode oidc, base URL
\* https://console.example.com) the cookie path handed to the construction
\* call is https://console.example.com/api/ and the secure-cookie flag is
\* true.
C9_Original ==
    ScenarioC
        => /\ Deref(authConfig).CookiePath =
                <<"h", "t", "t", "p", "s", ":", "/", "/", "c", "o", "n",
                  "s", "o", "l", "e", ".", "e", "x", "a", "m", "p", "l",
                  "e", ".", "c", "o", "m", "/", "a", "p", "i", "/">>
           /\ Deref(authConfig).SecureCookies = TRUE

\* C9 (amended): in Scenario C the cookie path handed to the construction
\* call is /api/ (the base URL's path component, empty here, joined to
\* /api/ with exactly one slash) and the secure-cookie flag is true; in
\* general the flag is true exactly when the base URL's scheme is https.
C9_Amended ==
    /\ ScenarioC
          => /\ Deref(authConfig).CookiePath = <<"/", "a", "p", "i", "/">>
             /\ Deref(authConfig).SecureCookies = TRUE
    /\ authConfig # Nil
          => /\ Deref(authConfig).SecureCookies
                   <=> (srv.BaseURL.Scheme = <<"h", "t", "t", "p", "s">>)
             /\ srv.BaseURL = ConsoleHTTPSPath
                   => Deref(authConfig).CookiePath =
                         <<"/", "c", "o", "n", "s", "o", "l", "e", "/", "a",
                           "p", "i", "/">>

C9_Witness ==
    /\ ScenarioC
    /\ input.ClientSecretFilePath = SecretGoodPath
    /\ Deref(authConfig).CookiePath = <<"/", "a", "p", "i", "/">>
    /\ Deref(authConfig).SecureCookies = TRUE

SessionUnset == srv.InactivityTimeout = 0 /\ srv.LogoutRedirect = Nil

\* C10 (as stated): in every state of the running process where the server
\* has no authenticator attached, its inactivity timeout and logout
\* redirect are unset.
C10_Original ==
    (phase # "fatal" /\ srv.Authenticator = Nil) => SessionUnset

\* C10 (amended): ApplyTo attaches the policy's inactivity timeout and
\* parsed logout-redirect URL to the server unconditionally, before the
\* authenticator is selected: they are unset until ApplyTo runs and equal
\* the policy's values afterwards, also with mode disabled, where no
\* authenticator is attached.
C10_Amended ==
    /\ ~ApplyToHasRun => (SessionUnset /\ srv.Authenticator = Nil)
    /\ ApplyToHasRun
          => /\ srv.InactivityTimeout
                   = Deref(completed).InactivityTimeoutSeconds
             /\ srv.LogoutRedirect = Deref(completed).LogoutRedirectURL
    /\ phase = "applied"
          => ((srv.Authenticator = Nil)
                 <=> (Deref(completed).AuthType = "disabled"))

C10_Witness ==
    /\ phase = "applied"
    /\ Deref(completed).AuthType = "disabled"
    /\ srv.Authenticator = Nil
    /\ srv.InactivityTimeout = 300
    /\ srv.LogoutRedirect # Nil

====
